---- MODULE Spec2Model ----
(***************************************************************************)
(* Model of data-pipeline-project/src/index.py: the Lambda entry point     *)
(* lambda_handler and the three methods of DataPipelineHandler             *)
(* (sync_bls_data, fetch_population_data, analyze_data).                   *)
(*                                                                         *)
(* Spec          one worker handling entry-point invocations one after     *)
(*               another against the S3 bucket and the SQS queue.          *)
(* SpecAnalysis  analyze_data as a function of the two loaded tables.      *)
(***************************************************************************)
EXTENDS Integers, Sequences, FiniteSets, TLC

\* Number of entry-point invocations explored.
MaxInvocations == 3

\* Invocations begun while two workers run side by side.
MaxConcurrent == 2

----------------------------------------------------------------------------
(* The external collaborators: S3 bucket, SQS queue, the two origins.      *)

KEY_BLS == "bls/pr.data.0.Current"
KEY_POP == "population/us_population.json"
Keys == {KEY_BLS, KEY_POP}

\* What get_object answers for a key that holds nothing.
NoSuchKey == "NoSuchKey"

\* Bodies the BLS origin serves with status 200, and the page it serves
\* with an HTTP failure status (requests.get returns both as a response).
BlsBytes == {"X", "Y"}
BlsErrorPage == "<403>"
BlsResponses ==
    [status : {200}, content : BlsBytes] \cup [status : {403}, content : {BlsErrorPage}]

\* Bodies the population origin serves: JSON texts (two spellings of the
\* same document, one other document) and a body that is not JSON.
PopBodies == {"[P1]", "[ P1 ]", "[P2]", "<html>"}
JSONDecodeError == "JSONDecodeError"

\* response.json(): the parsed document, or JSONDecodeError.
json_loads(body) ==
    CASE body = "[P1]" -> "P1"
      [] body = "[ P1 ]" -> "P1"
      [] body = "[P2]" -> "P2"
      [] OTHER -> JSONDecodeError

\* json.dumps(data): the canonical text of a parsed document.
json_dumps(data) ==
    CASE data = "P1" -> "[P1]"
      [] data = "P2" -> "[P2]"
      [] OTHER -> "null"

Blobs == BlsBytes \cup {BlsErrorPage} \cup {json_dumps(json_loads(b)) : b \in PopBodies \ {"<html>"}}

\* The trigger: a scheduled event has no 'Records' key, an SQS trigger has
\* one; the batch under the key may be empty.
Events ==
    { [keys |-> {"source"}, Records |-> <<>>],
      [keys |-> {"Records"}, Records |-> <<>>],
      [keys |-> {"Records"}, Records |-> <<"msg">>] }

Procs == {"w1", "w2"}
\* The worker of the sequential specification.
Worker == "w1"

NoResponse == [status |-> 0, content |-> ""]
NoResult == [kind |-> "none", statusCode |-> 0, body |-> ""]
NoEvent == [keys |-> {}, Records |-> <<>>]

VARIABLES
    store,        \* the bucket: key -> blob or NoSuchKey
    queue,        \* the SQS queue: messages sent so far
    pc,           \* per worker, its position in lambda_handler
    event,        \* per worker, the trigger it was invoked with
    calls,        \* per worker, the handler methods entered, in order
    log,          \* per worker, the store/queue operations called, in order
    response,     \* per worker, the response of the BLS origin
    existing,     \* per worker, what get_object answered in sync_bls_data
    data,         \* per worker, the parsed population document
    result,       \* per worker, what lambda_handler gave back
    failed,       \* per worker, the step whose failure ended the invocation
    store0,       \* per worker, the bucket when the invocation began
    syncs,        \* the last two finished sync_bls_data calls
    invocations,  \* invocations begun
    fetched,      \* the workers in the order of their latest time-series fetch
    bls_df,       \* analyze_data: the loaded time-series table
    pop_df,       \* analyze_data: the loaded population table
    apc,          \* analyze_data: "loaded" or "returned"
    results,      \* analyze_data: the returned dictionary
    tie_order,    \* the order sort_values of this build leaves tied rows in
    earlier       \* best_years of the run before the records were reordered

pipevars == <<store, queue, pc, event, calls, log, response, existing, data, result,
              failed, store0, syncs, invocations, fetched>>
tablevars == <<bls_df, pop_df, apc, results, tie_order, earlier>>
vars == <<store, queue, pc, event, calls, log, response, existing, data, result,
          failed, store0, syncs, invocations, fetched, bls_df, pop_df, apc, results,
          tie_order, earlier>>

NoResults == [population_stats |-> <<>>, best_years |-> <<>>, combined_report |-> <<>>]

InitPipe ==
    /\ store \in [Keys -> {NoSuchKey}]
    /\ queue = <<>>
    /\ pc = [p \in Procs |-> "idle"]
    /\ event = [p \in Procs |-> NoEvent]
    /\ calls = [p \in Procs |-> <<>>]
    /\ log = [p \in Procs |-> <<>>]
    /\ response = [p \in Procs |-> NoResponse]
    /\ existing = [p \in Procs |-> ""]
    /\ data = [p \in Procs |-> ""]
    /\ result = [p \in Procs |-> NoResult]
    /\ failed = [p \in Procs |-> ""]
    /\ store0 = [p \in Procs |-> store]
    /\ syncs = <<>>
    /\ invocations = 0
    /\ fetched = <<>>

InitTablesIdle ==
    /\ bls_df = <<>>
    /\ pop_df = <<>>
    /\ apc = "unused"
    /\ results = NoResults
    /\ tie_order = "table"
    /\ earlier = <<>>

Init == InitPipe /\ InitTablesIdle

----------------------------------------------------------------------------
(* lambda_handler and the methods it runs, one action per external call.   *)

Envelope(code, body) == [kind |-> "returned", statusCode |-> code, body |-> body]

\* The last two entries of a history.
LastTwo(s) == IF Len(s) <= 2 THEN s ELSE SubSeq(s, Len(s) - 1, Len(s))

NPuts(l, key) == Cardinality({i \in 1..Len(l) : l[i] = <<"put_object", key>>})

\* Worker p has received the newest time-series response.
FetchedLast(p) == Append(SelectSeq(fetched, LAMBDA q : q # p), p)

\* The record of a finished sync_bls_data call.
SyncRecord(p, l, ok) ==
    [content |-> response[p].content, pre |-> store0[p][KEY_BLS],
     nput |-> NPuts(l, KEY_BLS), ok |-> ok]

\* An exception raised at step `step` inside the try of lambda_handler: the
\* method's except re-raises it, lambda_handler's except returns the 500.
Raise(p, step) ==
    /\ pc' = [pc EXCEPT ![p] = "done"]
    /\ failed' = [failed EXCEPT ![p] = step]
    /\ result' = [result EXCEPT ![p] = Envelope(500, "error")]

\* The runtime invokes lambda_handler(event, context).
Invoke(p) ==
    /\ pc[p] \in {"idle", "done"}
    /\ invocations < MaxInvocations
    /\ invocations' = invocations + 1
    /\ \E e \in Events : event' = [event EXCEPT ![p] = e]
    /\ pc' = [pc EXCEPT ![p] = "construct"]
    /\ calls' = [calls EXCEPT ![p] = <<>>]
    /\ log' = [log EXCEPT ![p] = <<>>]
    /\ response' = [response EXCEPT ![p] = NoResponse]
    /\ existing' = [existing EXCEPT ![p] = ""]
    /\ data' = [data EXCEPT ![p] = ""]
    /\ result' = [result EXCEPT ![p] = NoResult]
    /\ failed' = [failed EXCEPT ![p] = ""]
    /\ store0' = [store0 EXCEPT ![p] = store]
    /\ UNCHANGED <<store, queue, syncs>>
    /\ UNCHANGED <<fetched, tablevars>>

\* handler = DataPipelineHandler(): the clients and the environment reads.
\* The statement stands before the try, so an exception of the constructor
\* leaves lambda_handler.
Construct(p) ==
    /\ pc[p] = "construct"
    /\ \/ /\ pc' = [pc EXCEPT ![p] = "dispatch"]
          /\ UNCHANGED <<result, failed>>
       \/ /\ pc' = [pc EXCEPT ![p] = "done"]
          /\ failed' = [failed EXCEPT ![p] = "construct"]
          /\ result' = [result EXCEPT ![p] = [kind |-> "raised", statusCode |-> 0, body |-> "KeyError"]]
    /\ UNCHANGED <<existing, store, queue, event, calls, log, response, data, store0,
                   syncs, invocations>>
    /\ UNCHANGED <<fetched, tablevars>>

\* Mutant: the batch under 'Records' must also be nonempty.
IsSqsTrigger_nonempty(e) == "Records" \in e.keys /\ Len(e.Records) > 0

\* if 'Records' in event
IsSqsTrigger(e) == "Records" \in e.keys

\* Mutant: a scheduled event goes straight to fetch_population_data.
Dispatch_skip_sync(p) ==
    /\ pc[p] = "dispatch"
    /\ IF IsSqsTrigger(event[p])
         THEN /\ pc' = [pc EXCEPT ![p] = "analyze_get_bls"]
              /\ calls' = [calls EXCEPT ![p] = Append(@, "analyze_data")]
         ELSE /\ pc' = [pc EXCEPT ![p] = "pop_fetch"]
              /\ calls' = [calls EXCEPT ![p] = Append(@, "fetch_population_data")]
    /\ UNCHANGED <<existing, store, queue, event, log, response, data, result, failed,
                   store0, syncs, invocations>>
    /\ UNCHANGED <<fetched, tablevars>>

Dispatch(p) ==
    /\ pc[p] = "dispatch"
    /\ IF IsSqsTrigger(event[p])
         THEN /\ pc' = [pc EXCEPT ![p] = "analyze_get_bls"]
              /\ calls' = [calls EXCEPT ![p] = Append(@, "analyze_data")]
         ELSE /\ pc' = [pc EXCEPT ![p] = "bls_fetch"]
              /\ calls' = [calls EXCEPT ![p] = Append(@, "sync_bls_data")]
    /\ UNCHANGED <<existing, store, queue, event, log, response, data, result, failed,
                   store0, syncs, invocations>>
    /\ UNCHANGED <<fetched, tablevars>>

\* Mutant: the except of sync_bls_data does not re-raise, the handler
\* goes on to fetch_population_data.
sync_bls_data_fetch_swallow(p) ==
    /\ pc[p] = "bls_fetch"
    /\ \/ /\ \E r \in BlsResponses : response' = [response EXCEPT ![p] = r]
          /\ pc' = [pc EXCEPT ![p] = "bls_get"]
          /\ fetched' = FetchedLast(p)
          /\ UNCHANGED <<failed, syncs, calls>>
       \/ /\ pc' = [pc EXCEPT ![p] = "pop_fetch"]
          /\ failed' = [failed EXCEPT ![p] = "bls_fetch"]
          /\ calls' = [calls EXCEPT ![p] = Append(@, "fetch_population_data")]
          /\ syncs' = LastTwo(Append(syncs, SyncRecord(p, log[p], FALSE)))
          /\ UNCHANGED <<response, fetched>>
    /\ UNCHANGED <<existing, store, queue, event, log, data, store0, invocations,
                   result>>
    /\ UNCHANGED tablevars

\* sync_bls_data: response = requests.get(...); current_data = response.content
sync_bls_data_fetch(p) ==
    /\ pc[p] = "bls_fetch"
    /\ \/ /\ \E r \in BlsResponses : response' = [response EXCEPT ![p] = r]
          /\ pc' = [pc EXCEPT ![p] = "bls_get"]
          /\ fetched' = FetchedLast(p)
          /\ UNCHANGED <<result, failed, syncs>>
       \/ /\ Raise(p, "bls_fetch")
          /\ syncs' = LastTwo(Append(syncs, SyncRecord(p, log[p], FALSE)))
          /\ UNCHANGED <<response, fetched>>
    /\ UNCHANGED <<existing, store, queue, event, calls, log, data, store0, invocations>>
    /\ UNCHANGED tablevars

\* The return of sync_bls_data into lambda_handler, which goes on to call
\* fetch_population_data.
SyncReturns(p, l) ==
    /\ pc' = [pc EXCEPT ![p] = "pop_fetch"]
    /\ calls' = [calls EXCEPT ![p] = Append(@, "fetch_population_data")]
    /\ syncs' = LastTwo(Append(syncs, SyncRecord(p, l, TRUE)))

\* What get_object can answer for a key: its body, the ClientError
\* NoSuchKey when it holds nothing, or at any time another ClientError
\* or an error that is no ClientError.
StoreErrors == {"NoSuchKey", "AccessDenied", "EndpointConnectionError"}
GetOutcomes(key) ==
    (IF store[key] = NoSuchKey THEN {"NoSuchKey"} ELSE {store[key]})
        \cup {"AccessDenied", "EndpointConnectionError"}

\* Mutant: every error of get_object is re-raised, NoSuchKey too.
Propagates_all(err) == TRUE

\* except ClientError as e: if e.response['Error']['Code'] != 'NoSuchKey': raise
\* (an error that is no ClientError passes the inner except untouched).
IsClientError(err) == err \in {"NoSuchKey", "AccessDenied"}
Propagates(err) == ~IsClientError(err) \/ err # "NoSuchKey"

\* Mutant: the comparison is lost, every call writes.
UpToDate_never(body, current_data) == FALSE

\* Mutant: any stored body counts as up to date.
UpToDate_always(body, current_data) == TRUE

\* if existing_obj['Body'].read() == current_data
UpToDate(body, current_data) == body = current_data

\* sync_bls_data: get_object, the comparison, the except ClientError.
sync_bls_data_get(p) ==
    /\ pc[p] = "bls_get"
    /\ log' = [log EXCEPT ![p] = Append(@, <<"get_object", KEY_BLS>>)]
    /\ \E got \in GetOutcomes(KEY_BLS) :
         /\ existing' = [existing EXCEPT ![p] = got]
         /\ \/ /\ got \notin StoreErrors
               /\ UpToDate(got, response[p].content)
               /\ SyncReturns(p, log'[p])
               /\ UNCHANGED <<result, failed>>
            \/ /\ got \notin StoreErrors
               /\ ~UpToDate(got, response[p].content)
               /\ pc' = [pc EXCEPT ![p] = "bls_put"]
               /\ UNCHANGED <<result, failed, calls, syncs>>
            \/ /\ got \in StoreErrors
               /\ ~Propagates(got)
               /\ pc' = [pc EXCEPT ![p] = "bls_put"]
               /\ UNCHANGED <<result, failed, calls, syncs>>
            \/ /\ got \in StoreErrors
               /\ Propagates(got)
               /\ Raise(p, "bls_get")
               /\ syncs' = LastTwo(Append(syncs, SyncRecord(p, log'[p], FALSE)))
               /\ UNCHANGED calls
    /\ UNCHANGED <<store, queue, event, response, data, store0, invocations>>
    /\ UNCHANGED <<fetched, tablevars>>

\* Mutant: the body is put twice.
sync_bls_data_put_twice(p) ==
    /\ pc[p] = "bls_put"
    /\ log' = [log EXCEPT ![p] = @ \o << <<"put_object", KEY_BLS>>, <<"put_object", KEY_BLS>> >>]
    /\ store' = [store EXCEPT ![KEY_BLS] = response[p].content]
    /\ SyncReturns(p, log'[p])
    /\ UNCHANGED <<existing, queue, event, response, data, store0, invocations,
                   result, failed>>
    /\ UNCHANGED <<fetched, tablevars>>

\* Mutant: compare and write are one step, the write happens only while
\* the key still holds what get_object answered.
sync_bls_data_put_atomic(p) ==
    /\ pc[p] = "bls_put"
    /\ log' = [log EXCEPT ![p] = Append(@, <<"put_object", KEY_BLS>>)]
    /\ \/ /\ store' = IF store[KEY_BLS] = existing[p]
                        THEN [store EXCEPT ![KEY_BLS] = response[p].content]
                        ELSE store
          /\ SyncReturns(p, log'[p])
          /\ UNCHANGED <<result, failed>>
       \/ /\ Raise(p, "bls_put")
          /\ syncs' = LastTwo(Append(syncs, SyncRecord(p, log'[p], FALSE)))
          /\ UNCHANGED <<store, calls>>
    /\ UNCHANGED <<existing, queue, event, response, data, store0, invocations>>
    /\ UNCHANGED <<fetched, tablevars>>

\* sync_bls_data: put_object of the fetched body.
sync_bls_data_put(p) ==
    /\ pc[p] = "bls_put"
    /\ log' = [log EXCEPT ![p] = Append(@, <<"put_object", KEY_BLS>>)]
    /\ \/ /\ store' = [store EXCEPT ![KEY_BLS] = response[p].content]
          /\ SyncReturns(p, log'[p])
          /\ UNCHANGED <<result, failed>>
       \/ /\ Raise(p, "bls_put")
          /\ syncs' = LastTwo(Append(syncs, SyncRecord(p, log'[p], FALSE)))
          /\ UNCHANGED <<store, calls>>
    /\ UNCHANGED <<existing, queue, event, response, data, store0, invocations>>
    /\ UNCHANGED <<fetched, tablevars>>

\* fetch_population_data: response = requests.get(self.population_api_url)
fetch_population_data_fetch(p) ==
    /\ pc[p] = "pop_fetch"
    /\ \/ /\ \E b \in PopBodies : data' = [data EXCEPT ![p] = b]
          /\ pc' = [pc EXCEPT ![p] = "pop_parse"]
          /\ UNCHANGED <<result, failed>>
       \/ /\ Raise(p, "pop_fetch")
          /\ UNCHANGED data
    /\ UNCHANGED <<existing, store, queue, event, calls, log, response, store0, syncs,
                   invocations>>
    /\ UNCHANGED <<fetched, tablevars>>

\* fetch_population_data: data = response.json()
fetch_population_data_parse(p) ==
    /\ pc[p] = "pop_parse"
    /\ IF json_loads(data[p]) # JSONDecodeError
         THEN /\ data' = [data EXCEPT ![p] = json_loads(data[p])]
              /\ pc' = [pc EXCEPT ![p] = "pop_put"]
              /\ UNCHANGED <<result, failed>>
         ELSE /\ Raise(p, "pop_parse")
              /\ UNCHANGED data
    /\ UNCHANGED <<existing, store, queue, event, calls, log, response, store0, syncs,
                   invocations>>
    /\ UNCHANGED <<fetched, tablevars>>

\* Mutant: the population put is skipped when the stored text is the same.
fetch_population_data_put_if_changed(p) ==
    /\ pc[p] = "pop_put"
    /\ IF store[KEY_POP] = json_dumps(data[p])
         THEN UNCHANGED <<log, store>>
         ELSE /\ log' = [log EXCEPT ![p] = Append(@, <<"put_object", KEY_POP>>)]
              /\ store' = [store EXCEPT ![KEY_POP] = json_dumps(data[p])]
    /\ pc' = [pc EXCEPT ![p] = "pop_send"]
    /\ UNCHANGED <<existing, queue, event, calls, response, data, store0, syncs,
                   invocations, result, failed>>
    /\ UNCHANGED <<fetched, tablevars>>

\* fetch_population_data: put_object of json.dumps(data); nothing is read
\* from the bucket first.
fetch_population_data_put(p) ==
    /\ pc[p] = "pop_put"
    /\ log' = [log EXCEPT ![p] = Append(@, <<"put_object", KEY_POP>>)]
    /\ \/ /\ store' = [store EXCEPT ![KEY_POP] = json_dumps(data[p])]
          /\ pc' = [pc EXCEPT ![p] = "pop_send"]
          /\ UNCHANGED <<result, failed>>
       \/ /\ Raise(p, "pop_put")
          /\ UNCHANGED store
    /\ UNCHANGED <<existing, queue, event, calls, response, data, store0, syncs,
                   invocations>>
    /\ UNCHANGED <<fetched, tablevars>>

\* The body of the message fetch_population_data sends; the timestamp is
\* the number of the invocation that issued it.
PopulationUpdate(t) == [type |-> "population_update", timestamp |-> t]

\* Mutant: a failed send_message takes the population blob back.
fetch_population_data_send_rollback(p) ==
    /\ pc[p] = "pop_send"
    /\ log' = [log EXCEPT ![p] = Append(@, <<"send_message", "queue">>)]
    /\ \/ /\ queue' = Append(queue, PopulationUpdate(invocations))
          /\ pc' = [pc EXCEPT ![p] = "done"]
          /\ result' = [result EXCEPT ![p] = Envelope(200, "Sync completed successfully")]
          /\ UNCHANGED <<failed, store>>
       \/ /\ Raise(p, "pop_send")
          /\ store' = [store EXCEPT ![KEY_POP] = store0[p][KEY_POP]]
          /\ UNCHANGED queue
    /\ UNCHANGED <<existing, event, calls, response, data, store0, syncs,
                   invocations>>
    /\ UNCHANGED <<fetched, tablevars>>

\* fetch_population_data: send_message, then the return into
\* lambda_handler, which returns the 200 envelope.
fetch_population_data_send(p) ==
    /\ pc[p] = "pop_send"
    /\ log' = [log EXCEPT ![p] = Append(@, <<"send_message", "queue">>)]
    /\ \/ /\ queue' = Append(queue, PopulationUpdate(invocations))
          /\ pc' = [pc EXCEPT ![p] = "done"]
          /\ result' = [result EXCEPT ![p] = Envelope(200, "Sync completed successfully")]
          /\ UNCHANGED failed
       \/ /\ Raise(p, "pop_send")
          /\ UNCHANGED queue
    /\ UNCHANGED <<existing, store, event, calls, response, data, store0, syncs,
                   invocations>>
    /\ UNCHANGED <<fetched, tablevars>>

\* analyze_data: get_object of the time-series blob and pd.read_csv of it.
analyze_data_get_bls(p) ==
    /\ pc[p] = "analyze_get_bls"
    /\ log' = [log EXCEPT ![p] = Append(@, <<"get_object", KEY_BLS>>)]
    /\ \/ /\ store[KEY_BLS] # NoSuchKey
          /\ pc' = [pc EXCEPT ![p] = "analyze_get_pop"]
          /\ UNCHANGED <<result, failed>>
       \/ Raise(p, "analyze_get_bls")
    /\ UNCHANGED <<existing, store, queue, event, calls, response, data, store0, syncs,
                   invocations>>
    /\ UNCHANGED <<fetched, tablevars>>

\* analyze_data: get_object of the population blob, json.loads and
\* pd.DataFrame of it.
analyze_data_get_pop(p) ==
    /\ pc[p] = "analyze_get_pop"
    /\ log' = [log EXCEPT ![p] = Append(@, <<"get_object", KEY_POP>>)]
    /\ \/ /\ store[KEY_POP] # NoSuchKey
          /\ pc' = [pc EXCEPT ![p] = "analyze_compute"]
          /\ UNCHANGED <<result, failed>>
       \/ Raise(p, "analyze_get_pop")
    /\ UNCHANGED <<existing, store, queue, event, calls, response, data, store0, syncs,
                   invocations>>
    /\ UNCHANGED <<fetched, tablevars>>

\* Mutant: the cleaned table is written back over the time-series blob.
analyze_data_compute_persist(p) ==
    /\ pc[p] = "analyze_compute"
    /\ pc' = [pc EXCEPT ![p] = "done"]
    /\ result' = [result EXCEPT ![p] = Envelope(200, "results")]
    /\ store' = [store EXCEPT ![KEY_BLS] = "cleaned"]
    /\ log' = [log EXCEPT ![p] = Append(@, <<"put_object", KEY_BLS>>)]
    /\ UNCHANGED <<existing, queue, event, calls, response, data, store0,
                   syncs, invocations, failed>>
    /\ UNCHANGED <<fetched, tablevars>>

\* analyze_data: the cleaning and the three views, in memory; then
\* lambda_handler prints the results and returns them in the 200 envelope.
analyze_data_compute(p) ==
    /\ pc[p] = "analyze_compute"
    /\ \/ /\ pc' = [pc EXCEPT ![p] = "done"]
          /\ result' = [result EXCEPT ![p] = Envelope(200, "results")]
          /\ UNCHANGED failed
       \/ Raise(p, "analyze_compute")
    /\ UNCHANGED <<existing, store, queue, event, calls, log, response, data, store0,
                   syncs, invocations>>
    /\ UNCHANGED <<fetched, tablevars>>

lambda_handler(p) ==
    \/ Invoke(p)
    \/ Construct(p)
    \/ Dispatch(p)
    \/ sync_bls_data_fetch(p)
    \/ sync_bls_data_get(p)
    \/ sync_bls_data_put(p)
    \/ fetch_population_data_fetch(p)
    \/ fetch_population_data_parse(p)
    \/ fetch_population_data_put(p)
    \/ fetch_population_data_send(p)
    \/ analyze_data_get_bls(p)
    \/ analyze_data_get_pop(p)
    \/ analyze_data_compute(p)

\* One worker: the invocations follow one another.
Next == \E p \in {Worker} : lambda_handler(p)

Spec == Init /\ [][Next]_vars

\* Two workers: the runtime runs invocations side by side, MaxConcurrent of
\* them in all.
InvokeConcurrent(p) == invocations < MaxConcurrent /\ Invoke(p)

NextConc ==
    \E p \in Procs :
        \/ InvokeConcurrent(p)
        \/ Construct(p)
        \/ Dispatch(p)
        \/ sync_bls_data_fetch(p)
        \/ sync_bls_data_get(p)
        \/ sync_bls_data_put(p)
        \/ fetch_population_data_fetch(p)
        \/ fetch_population_data_parse(p)
        \/ fetch_population_data_put(p)
        \/ fetch_population_data_send(p)
        \/ analyze_data_get_bls(p)
        \/ analyze_data_get_pop(p)
        \/ analyze_data_compute(p)

SpecConc == Init /\ [][NextConc]_vars

----------------------------------------------------------------------------
(* analyze_data as a function of the two tables it loaded.  A table is the *)
(* sequence of its rows; a cell that pandas leaves empty (NaN) is <<>>,    *)
(* a present number n is <<n>>.                                            *)

\* Rows of the time-series table, and rows of both tables together, in
\* one explored input.
MaxRecs == 3
MaxRows == 3

TARGET_SERIES == "PRS30006032"
TARGET_PERIOD == "Q01"
WINDOW_FIRST == 2013
WINDOW_LAST == 2018

\* The target series, the same identifier with padding as the raw file may
\* carry it, and another series.
SeriesIds == {TARGET_SERIES, "PRS30006032 ", "S1"}
Periods == {TARGET_PERIOD, "Q02"}
BlsYears == {2013, 2014}
Values == {1, 2}
PopYears == {2012, 2013, 2018, 2019}
Populations == {100, 200}

TimeSeriesRecords == [series_id : SeriesIds, year : BlsYears, period : Periods, value : Values]
PopulationRecords == [year : PopYears, population : Populations]

\* The sequences over S of length n, and of length at most n.
SeqsOfLen(S, n) == [1..n -> S]
SeqsUpTo(S, n) == UNION {SeqsOfLen(S, k) : k \in 0..n}

\* The tables analyze_data is explored on: time-series tables of up to
\* MaxRecs rows beside a population table of one row, and every pair of
\* tables of up to MaxRows rows together whose time-series table leaves
\* room for a population row.
OnePopulationRow == <<[year |-> 2013, population |-> 100]>>

\* sort_values sorts with the default kind, which is not stable: where it
\* puts rows of equal value is fixed by the build, not by pandas. Tied rows
\* keep the order of the table or come out in the reverse of it.
TieOrders == {"table", "reverse"}

InitAnalysis ==
    /\ InitPipe
    /\ \/ /\ bls_df \in SeqsUpTo(TimeSeriesRecords, MaxRecs)
          /\ pop_df = OnePopulationRow
       \/ \E n \in 0..(MaxRows - 1) :
            /\ bls_df \in SeqsOfLen(TimeSeriesRecords, n)
            /\ pop_df \in SeqsUpTo(PopulationRecords, MaxRows - n)
    /\ apc = "loaded"
    /\ results = NoResults
    /\ tie_order \in TieOrders
    /\ earlier = <<>>

\* str.strip() on the texts of the model.
Strip(text) ==
    CASE text = " PRS30006032" -> "PRS30006032"
      [] text = "PRS30006032 " -> "PRS30006032"
      [] text = " Q01" -> "Q01"
      [] text = "Q01 " -> "Q01"
      [] OTHER -> text

\* isinstance(x, str) for the x that DataFrame.apply hands to the lambda:
\* apply calls it once per column with the column as a Series.
ColumnIsStr(column) == FALSE

\* bls_df.apply(lambda x: x.str.strip() if isinstance(x, str) else x)
CleanColumn(column) ==
    IF ColumnIsStr(column)
      THEN [i \in DOMAIN column |-> Strip(column[i])]
      ELSE column

Clean(df) ==
    LET sid == CleanColumn([i \in 1..Len(df) |-> df[i].series_id])
        per == CleanColumn([i \in 1..Len(df) |-> df[i].period])
    IN  [i \in 1..Len(df) |->
            [series_id |-> sid[i], year |-> df[i].year,
             period |-> per[i], value |-> df[i].value]]

RECURSIVE SumSeq(_)
SumSeq(xs) == IF xs = <<>> THEN 0 ELSE xs[1] + SumSeq(Tail(xs))

\* Mutant: the window excludes its two end years.
InWindow_exclusive(year) == year > WINDOW_FIRST /\ year < WINDOW_LAST

\* (pop_df['year'] >= 2013) & (pop_df['year'] <= 2018)
InWindow(year) == year >= WINDOW_FIRST /\ year <= WINDOW_LAST

\* ['population'].agg(['mean', 'std']).to_dict() over the window. The mean
\* is the fraction <<sum, n>>, NaN for no row; the standard deviation is
\* given by its square, the fraction <<n*sum(x^2) - sum(x)^2, n*(n-1)>>,
\* NaN for fewer than two rows.
population_stats(pop) ==
    LET inside == SelectSeq(pop, LAMBDA r : InWindow(r.year))
        xs == [i \in 1..Len(inside) |-> inside[i].population]
        sq == [i \in 1..Len(xs) |-> xs[i] * xs[i]]
        n == Len(xs)
    IN  [mean |-> IF n = 0 THEN <<>> ELSE <<SumSeq(xs), n>>,
         std2 |-> IF n < 2 THEN <<>>
                  ELSE <<n * SumSeq(sq) - SumSeq(xs) * SumSeq(xs), n * (n - 1)>>]

\* groupby(['series_id', 'year'])['value'].sum().reset_index(): one row per
\* (series_id, year) present, with the sum of its values.
GroupSum(df, sid, year) ==
    LET rows == SelectSeq(df, LAMBDA r : r.series_id = sid /\ r.year = year)
    IN  SumSeq([i \in 1..Len(rows) |-> rows[i].value])

Summed(df) ==
    {[series_id |-> df[i].series_id, year |-> df[i].year,
      value |-> GroupSum(df, df[i].series_id, df[i].year)] : i \in 1..Len(df)}

\* Mutant: the sort is ascending (ascending=False is lost).
InSortOrder_ascending(a, b) == a.value <= b.value

\* sort_values('value', ascending=False): a before b is in order.
InSortOrder(a, b) == a.value >= b.value

\* The orders sort_values can leave the rows in: the default sort kind is
\* not stable, so rows of equal value may come out in any order.
RECURSIVE SortOutcomes(_)
SortOutcomes(rows) ==
    IF rows = {} THEN {<<>>}
    ELSE UNION {{<<r>> \o rest : rest \in SortOutcomes(rows \ {r})} :
                    r \in {x \in rows : \A y \in rows : InSortOrder(x, y)}}

\* The order of the series_id texts.
SeriesOrder == <<TARGET_SERIES, "PRS30006032 ", "S1">>
SeriesRank(sid) == CHOOSE i \in 1..Len(SeriesOrder) : SeriesOrder[i] = sid

\* groupby sorts the group keys: (series_id, year) ascending.
KeyBefore(a, b) ==
    \/ SeriesRank(a.series_id) < SeriesRank(b.series_id)
    \/ a.series_id = b.series_id /\ a.year < b.year

RECURSIVE SortByKey(_)
SortByKey(rows) ==
    IF rows = {} THEN <<>>
    ELSE LET r == CHOOSE x \in rows : \A y \in rows \ {x} : KeyBefore(x, y)
         IN  <<r>> \o SortByKey(rows \ {r})

\* Mutant: groupby(sort=False), the groups stand in the order in which
\* their keys first appear in the table.
Grouped_unsorted(df) ==
    LET idx == SelectSeq([i \in 1..Len(df) |-> i],
                         LAMBDA i : \A j \in 1..(i - 1) :
                             df[j].series_id # df[i].series_id \/ df[j].year # df[i].year)
    IN  [k \in 1..Len(idx) |->
            [series_id |-> df[idx[k]].series_id, year |-> df[idx[k]].year,
             value |-> GroupSum(df, df[idx[k]].series_id, df[idx[k]].year)]]

\* .groupby(['series_id', 'year'])['value'].sum().reset_index(): the table
\* of the sums, one row per group, in the order of the keys.
Grouped(df) == SortByKey(Summed(df))

Pos(tbl, r) == CHOOSE i \in 1..Len(tbl) : tbl[i] = r

\* .sort_values('value', ascending=False) of this build: the one outcome
\* in which tied rows stand as `order` says.
sort_values(tbl, order) ==
    CHOOSE s \in SortOutcomes({tbl[i] : i \in 1..Len(tbl)}) :
        \A i, j \in 1..Len(s) :
            (i < j /\ s[i].value = s[j].value) =>
                IF order = "table" THEN Pos(tbl, s[i]) < Pos(tbl, s[j])
                                   ELSE Pos(tbl, s[i]) > Pos(tbl, s[j])

\* .groupby('series_id').first().to_dict('index'): per series_id the first
\* row of the sorted table.
FirstPerSeries(srt) ==
    [sid \in {srt[i].series_id : i \in 1..Len(srt)} |->
        LET first == CHOOSE i \in 1..Len(srt) :
                        /\ srt[i].series_id = sid
                        /\ \A j \in 1..(i - 1) : srt[j].series_id # sid
        IN  [year |-> srt[first].year, value |-> srt[first].value]]

\* Mutant: the two conditions are joined by | instead of &.
CombinedFilter_or(r) == r.series_id = TARGET_SERIES \/ r.period = TARGET_PERIOD

\* (bls_df['series_id'] == 'PRS30006032') & (bls_df['period'] == 'Q01')
CombinedFilter(r) == r.series_id = TARGET_SERIES /\ r.period = TARGET_PERIOD

\* The rows merge(pop_df, on='year', how='left') gives for one left row:
\* one per population row of that year, in their order, or one with the
\* population empty.
JoinRow(l, population) ==
    [series_id |-> l.series_id, year |-> l.year, period |-> l.period,
     value |-> l.value, population |-> population]

\* Mutant: an inner join, a left row without a match is dropped.
MergeOne_inner(l, pop) ==
    LET matches == SelectSeq(pop, LAMBDA r : r.year = l.year)
    IN  [i \in 1..Len(matches) |-> JoinRow(l, <<matches[i].population>>)]

MergeOne(l, pop) ==
    LET matches == SelectSeq(pop, LAMBDA r : r.year = l.year)
    IN  IF matches = <<>>
          THEN <<JoinRow(l, <<>>)>>
          ELSE [i \in 1..Len(matches) |-> JoinRow(l, <<matches[i].population>>)]

RECURSIVE MergeLeft(_, _)
MergeLeft(left, pop) ==
    IF left = <<>> THEN <<>>
    ELSE MergeOne(left[1], pop) \o MergeLeft(Tail(left), pop)

combined_report(df, pop) == MergeLeft(SelectSeq(df, CombinedFilter), pop)

\* analyze_data after the two loads. pd.DataFrame of an empty JSON array
\* has no columns, so pop_df['year'] raises KeyError; otherwise the three
\* views are returned.
analyze_data ==
    /\ apc = "loaded"
    /\ IF pop_df = <<>>
         THEN /\ apc' = "raised"
              /\ results' = NoResults
         ELSE /\ apc' = "returned"
              /\ LET cleaned == Clean(bls_df)
                     srt == sort_values(Grouped(cleaned), tie_order)
                 IN  results' = [population_stats |-> population_stats(pop_df),
                                 best_years |-> FirstPerSeries(srt),
                                 combined_report |-> combined_report(cleaned, pop_df)]
    /\ UNCHANGED <<bls_df, pop_df, tie_order, earlier>>
    /\ UNCHANGED pipevars

NextAnalysis == analyze_data

SpecAnalysis == InitAnalysis /\ [][NextAnalysis]_vars

----------------------------------------------------------------------------
(* analyze_data run twice over the same time-series records, which the     *)
(* blob holds in another order the second time.                            *)

\* Records of the two series over one period.
TieRecords ==
    {r \in TimeSeriesRecords : r.period = TARGET_PERIOD /\ r.series_id \in {TARGET_SERIES, "S1"}}

InitTies ==
    /\ InitPipe
    /\ bls_df \in SeqsUpTo(TieRecords, MaxRecs)
    /\ pop_df = OnePopulationRow
    /\ apc = "loaded"
    /\ results = NoResults
    /\ tie_order \in TieOrders
    /\ earlier = <<>>

\* The rearrangements of a table.
Reorderings(df) ==
    {[i \in 1..Len(df) |-> df[f[i]]] :
        f \in {g \in [1..Len(df) -> 1..Len(df)] :
                  \A i, j \in 1..Len(df) : g[i] = g[j] => i = j}}

\* The next invocation loads the same records in another order.
Reorder ==
    /\ apc = "returned"
    /\ earlier = <<>>
    /\ bls_df' \in Reorderings(bls_df) \ {bls_df}
    /\ earlier' = <<results.best_years>>
    /\ apc' = "loaded"
    /\ results' = NoResults
    /\ UNCHANGED <<pop_df, tie_order>>
    /\ UNCHANGED pipevars

NextTies == analyze_data \/ Reorder

SpecTies == InitTies /\ [][NextTies]_vars

----------------------------------------------------------------------------
(* Properties of the pipeline, checked under Spec.                         *)

PUT_BLS == <<"put_object", KEY_BLS>>
PUT_POP == <<"put_object", KEY_POP>>
SEND == <<"send_message", "queue">>

\* The invocation of p went down the Sync path / the Analysis path.
SyncPath(p) == calls[p] # <<>> /\ calls[p][1] = "sync_bls_data"
AnalysisPath(p) == calls[p] # <<>> /\ calls[p][1] = "analyze_data"

\* sync_bls_data of p's invocation returned normally.
SyncReturned(p) == SyncPath(p) /\ Len(calls[p]) >= 2

\* p's invocation returned the 200 envelope.
Succeeded(p) == pc[p] = "done" /\ result[p].kind = "returned" /\ result[p].statusCode = 200

\* Messages on the queue issued by invocation number t.
Sent(t) == {i \in 1..Len(queue) : queue[i].timestamp = t}

\* The operations of a log on the population key and the queue.
PopOps(l) == SelectSeq(l, LAMBDA op : op \in {PUT_POP, SEND})

\* C1: sync_bls_data is idempotent on an unchanged origin. Whenever
\* get_object answered bytes equal to the fetched bytes, the call makes no
\* put_object, returns normally and the time-series blob is what it was;
\* and of two successive calls that both return normally with the same
\* fetched bytes, the first starting from an absent or different blob, the
\* first makes exactly one put_object and the second none.
C1_Idempotent ==
    /\ \A p \in Procs :
         (existing[p] # "" /\ existing[p] = response[p].content)
            => /\ NPuts(log[p], KEY_BLS) = 0
               /\ store[KEY_BLS] = store0[p][KEY_BLS]
               /\ SyncReturned(p)
    /\ (/\ Len(syncs) = 2
        /\ syncs[1].ok /\ syncs[2].ok
        /\ syncs[1].content = syncs[2].content
        /\ syncs[1].pre # syncs[1].content)
          => /\ syncs[1].nput = 1
             /\ syncs[2].nput = 0
             /\ syncs[2].pre = syncs[2].content

C1_Witness ==
    /\ Len(syncs) = 2
    /\ syncs[1].ok /\ syncs[2].ok
    /\ syncs[1].content = syncs[2].content
    /\ syncs[1].pre # syncs[1].content
    /\ syncs[1].nput + syncs[2].nput = 1
    /\ existing[Worker] = response[Worker].content
    /\ store[KEY_BLS] = response[Worker].content

\* C2: change detection. When the time-series key was absent or held bytes
\* different from the fetched ones and sync_bls_data returned normally, it
\* made one put_object and the key holds exactly the fetched bytes.
C2_ChangeDetection ==
    \A p \in Procs :
        (/\ SyncReturned(p)
         /\ store0[p][KEY_BLS] # response[p].content)
          => /\ store[KEY_BLS] = response[p].content
             /\ NPuts(log[p], KEY_BLS) = 1

\* A blob X overwritten by Y, and an absent key filled.
C2_Witness ==
    /\ SyncReturned(Worker)
    /\ store0[Worker][KEY_BLS] = "X"
    /\ response[Worker].content = "Y"
    /\ store[KEY_BLS] = "Y"

\* C3 as stated: the Analysis path runs if and only if the trigger carries
\* a nonempty batch of records; an empty batch goes the Sync path.
C3_Original ==
    \A p \in Procs :
        calls[p] # <<>> =>
            (AnalysisPath(p) <=>
                ("Records" \in event[p].keys /\ Len(event[p].Records) > 0))

\* C3 amended: the Analysis path runs if and only if the trigger has a
\* 'Records' field, whether or not its batch is empty; every other trigger
\* runs the Sync path, which enters sync_bls_data and then, once that
\* returned, fetch_population_data, and has entered both when it succeeds.
C3_Routing ==
    \A p \in Procs :
        calls[p] # <<>> =>
            /\ "Records" \in event[p].keys => calls[p] = <<"analyze_data">>
            /\ "Records" \notin event[p].keys =>
                 /\ calls[p] \in {<<"sync_bls_data">>,
                                  <<"sync_bls_data", "fetch_population_data">>}
                 /\ Succeeded(p) =>
                      calls[p] = <<"sync_bls_data", "fetch_population_data">>

\* An empty batch was routed to the Analysis path.
C3_Witness ==
    /\ pc[Worker] = "done"
    /\ "Records" \in event[Worker].keys
    /\ event[Worker].Records = <<>>
    /\ calls[Worker] = <<"analyze_data">>

\* C4: every invocation ends with an envelope: 200 exactly when nothing
\* failed, 500 when anything failed, the construction of the handler
\* included; no exception leaves lambda_handler.
C4_Envelope ==
    \A p \in Procs :
        pc[p] = "done" =>
            /\ result[p].kind = "returned"
            /\ result[p].statusCode = 200 <=> failed[p] = ""
            /\ failed[p] # "" => result[p].statusCode = 500

\* C5: in sync_bls_data a NoSuchKey answer of get_object goes on to the
\* put_object and is not the failure of the call; any other error of
\* get_object ends the invocation with the 500 envelope, with no
\* put_object made and the bucket as it was.
C5_NotFoundIsNormal ==
    \A p \in Procs :
        /\ existing[p] = "NoSuchKey" =>
             /\ failed[p] # "bls_get"
             /\ pc[p] = "bls_put" \/ NPuts(log[p], KEY_BLS) = 1
             /\ (SyncReturned(p) => store[KEY_BLS] = response[p].content)
        /\ existing[p] \in StoreErrors \ {"NoSuchKey"} =>
             /\ pc[p] = "done"
             /\ failed[p] = "bls_get"
             /\ result[p] = Envelope(500, "error")
             /\ NPuts(log[p], KEY_BLS) = 0
             /\ store = store0[p]

\* The key was absent and the write went through; and, below, another
\* error of get_object ended the call.
C5_Witness ==
    /\ existing[Worker] = "NoSuchKey"
    /\ Succeeded(Worker)
    /\ store[KEY_BLS] = response[Worker].content
    /\ store0[Worker][KEY_BLS] = NoSuchKey

C5_WitnessError ==
    /\ existing[Worker] = "AccessDenied"
    /\ failed[Worker] = "bls_get"

\* C6: a failure of the origin fetch in sync_bls_data, an exception of the
\* request or an HTTP failure status, ends the invocation in failure with
\* no put_object and the time-series blob as it was; the body of an error
\* response is never stored.
C6_FetchFailureFatal ==
    \A p \in Procs :
        (failed[p] = "bls_fetch" \/ response[p].status \notin {0, 200}) =>
            /\ NPuts(log[p], KEY_BLS) = 0
            /\ store[KEY_BLS] = store0[p][KEY_BLS]
            /\ store[KEY_BLS] # BlsErrorPage
            /\ ~SyncReturned(p)
            /\ pc[p] = "done" => result[p] = Envelope(500, "error")

\* C7: fetch_population_data writes, then notifies. A successful Sync
\* invocation made exactly one put_object on the population key, whatever
\* was stored, and after it exactly one send_message, of type
\* population_update; a send_message is only ever made after the put_object
\* of the same invocation succeeded; none is made when the fetch, the
\* parse or the put failed.
C7_WriteThenNotify ==
    \A p \in Procs :
        /\ (SyncPath(p) /\ Succeeded(p)) =>
             /\ PopOps(log[p]) = <<PUT_POP, SEND>>
             /\ store[KEY_POP] = json_dumps(data[p])
             /\ Cardinality(Sent(invocations)) = 1
             /\ queue[Len(queue)] = PopulationUpdate(invocations)
        /\ \A i \in 1..Len(log[p]) :
             log[p][i] = SEND =>
                 /\ \E j \in 1..(i - 1) : log[p][j] = PUT_POP
                 /\ store[KEY_POP] = json_dumps(data[p])
        /\ failed[p] \in {"pop_fetch", "pop_parse", "pop_put"} =>
             /\ SEND \notin {log[p][i] : i \in 1..Len(log[p])}
             /\ Sent(invocations) = {}
        /\ pc[p] # "idle" /\ ~Succeeded(p) => Sent(invocations) = {}
        /\ \A i \in 1..Len(queue) : queue[i].type = "population_update"

\* A success that overwrote a population blob equal to the new text.
C7_Witness ==
    /\ SyncPath(Worker) /\ Succeeded(Worker)
    /\ store0[Worker][KEY_POP] = json_dumps(data[Worker])
    /\ PopOps(log[Worker]) = <<PUT_POP, SEND>>
    /\ Len(queue) = 2

\* C8: the Analysis path is read-only. Whatever its outcome the bucket is
\* what it was when the invocation began, no put_object and no
\* send_message was made; so a bucket that differs from the one the
\* invocation began with was changed by the Sync path.
C8_AnalysisReadOnly ==
    \A p \in Procs :
        /\ AnalysisPath(p) =>
             /\ store = store0[p]
             /\ \A i \in 1..Len(log[p]) : log[p][i][1] = "get_object"
             /\ Sent(invocations) = {}
        /\ (pc[p] # "idle" /\ store # store0[p]) => SyncPath(p)

\* A finished Analysis over a bucket that holds both blobs.
C8_Witness ==
    /\ AnalysisPath(Worker)
    /\ Succeeded(Worker)
    /\ store[KEY_BLS] # NoSuchKey /\ store[KEY_POP] # NoSuchKey
    /\ Len(log[Worker]) = 2

C8_WitnessFailed ==
    /\ AnalysisPath(Worker)
    /\ pc[Worker] = "done" /\ failed[Worker] = "analyze_compute"

----------------------------------------------------------------------------
(* Properties of analyze_data, checked under SpecAnalysis.                 *)

\* The distinct series_id values of a table, the years of one of them, and
\* the sum of the values of one series_id in one year.
SeriesOf(df) == {df[i].series_id : i \in 1..Len(df)}
YearsOf(df, sid) == {df[i].year : i \in {k \in 1..Len(df) : df[k].series_id = sid}}
RECURSIVE TotalValue(_, _, _)
TotalValue(df, sid, year) ==
    IF df = <<>> THEN 0
    ELSE (IF df[1].series_id = sid /\ df[1].year = year THEN df[1].value ELSE 0)
            + TotalValue(Tail(df), sid, year)

\* C9: best_years has exactly one entry per distinct series_id of the
\* time-series table; the entry names a year of that series_id whose summed
\* value is maximal among the years of the series_id, and that sum.
C9_BestYears ==
    apc = "returned" =>
        /\ DOMAIN results.best_years = SeriesOf(bls_df)
        /\ \A sid \in SeriesOf(bls_df) :
             LET best == results.best_years[sid]
             IN  /\ best.year \in YearsOf(bls_df, sid)
                 /\ best.value = TotalValue(bls_df, sid, best.year)
                 /\ \A y \in YearsOf(bls_df, sid) :
                        TotalValue(bls_df, sid, y) <= best.value

\* A series with two years, of which one wins only by the sum of its two
\* rows.
C9_Witness ==
    /\ apc = "returned"
    /\ \E sid \in SeriesOf(bls_df) :
         /\ Cardinality(YearsOf(bls_df, sid)) = 2
         /\ results.best_years[sid].value = 2
         /\ \A i \in 1..Len(bls_df) : bls_df[i].value = 1

\* C10: every row of combined_report has series_id "PRS30006032" and
\* period "Q01", and is a time-series row with exactly these two values;
\* rows of another series_id or period contribute nothing.
C10_CombinedFilter ==
    apc = "returned" =>
        \A i \in 1..Len(results.combined_report) :
            LET row == results.combined_report[i]
            IN  /\ row.series_id = "PRS30006032"
                /\ row.period = "Q01"
                /\ \E k \in 1..Len(bls_df) :
                      /\ bls_df[k].series_id = "PRS30006032"
                      /\ bls_df[k].period = "Q01"
                      /\ bls_df[k].year = row.year
                      /\ bls_df[k].value = row.value

\* A report with a row, from a table that also holds a row of the series
\* in another period and a row of another series in the period.
C10_Witness ==
    /\ apc = "returned"
    /\ Len(results.combined_report) = 1
    /\ \E i, j \in 1..Len(bls_df) :
         /\ bls_df[i].series_id = "PRS30006032" /\ bls_df[i].period # "Q01"
         /\ bls_df[j].series_id # "PRS30006032" /\ bls_df[j].period = "Q01"


\* The sum of population^k (k = 1 or 2) over the rows of a population
\* table whose year lies in 2013..2018.
RECURSIVE WindowTotal(_, _)
WindowTotal(pop, k) ==
    IF pop = <<>> THEN 0
    ELSE (IF pop[1].year \in 2013..2018
            THEN (IF k = 1 THEN pop[1].population
                           ELSE pop[1].population * pop[1].population)
            ELSE 0)
         + WindowTotal(Tail(pop), k)

WindowCount(pop) == Cardinality({i \in 1..Len(pop) : pop[i].year \in 2013..2018})

\* C11: population_stats is computed over exactly the population rows
\* whose year y has 2013 <= y <= 2018, both ends included: the mean is
\* their sum over their number, the standard deviation the sample one of
\* the same rows; a row of a year outside the window adds nothing to
\* either.
C11_Windowing ==
    apc = "returned" =>
        LET n == WindowCount(pop_df)
            sum == WindowTotal(pop_df, 1)
            sumsq == WindowTotal(pop_df, 2)
        IN  /\ results.population_stats.mean =
                 (IF n = 0 THEN <<>> ELSE <<sum, n>>)
            /\ results.population_stats.std2 =
                 (IF n < 2 THEN <<>> ELSE <<n * sumsq - sum * sum, n * (n - 1)>>)

\* Rows {2012: 100, 2018: 200}: the mean is 200, over the one row of the
\* end year of the window.
C11_Witness ==
    /\ apc = "returned"
    /\ pop_df = <<[year |-> 2012, population |-> 100],
                  [year |-> 2018, population |-> 200]>>
    /\ results.population_stats.mean = <<200, 1>>


\* The rows of the time-series table with series_id "PRS30006032" and
\* period "Q01", by index.
Filtered(df) ==
    {k \in 1..Len(df) : df[k].series_id = "PRS30006032" /\ df[k].period = "Q01"}

\* Row `row` of the report is time-series row `l` with population cell c.
IsJoinOf(row, l, c) ==
    /\ row.series_id = l.series_id /\ row.year = l.year
    /\ row.period = l.period /\ row.value = l.value
    /\ row.population = c

\* C15: combined_report is the left join. Every time-series row of the
\* series and period is in it: once with the population of each population
\* row of its year, or once with the population empty when no population
\* row has its year; no row of the report pairs otherwise; and with at most
\* one population row per year the report has as many rows as there are
\* time-series rows of the series and period.
C15_LeftJoin ==
    apc = "returned" =>
        LET report == results.combined_report
            PopOf(y) == {j \in 1..Len(pop_df) : pop_df[j].year = y}
        IN  /\ \A k \in Filtered(bls_df) :
                 IF PopOf(bls_df[k].year) = {}
                   THEN \E i \in 1..Len(report) : IsJoinOf(report[i], bls_df[k], <<>>)
                   ELSE \A j \in PopOf(bls_df[k].year) :
                          \E i \in 1..Len(report) :
                             IsJoinOf(report[i], bls_df[k], <<pop_df[j].population>>)
            /\ \A i \in 1..Len(report) :
                 IF report[i].population = <<>>
                   THEN PopOf(report[i].year) = {}
                   ELSE \E j \in PopOf(report[i].year) :
                          report[i].population = <<pop_df[j].population>>
            /\ (\A j1, j2 \in 1..Len(pop_df) :
                    pop_df[j1].year = pop_df[j2].year => j1 = j2)
                 => Len(report) = Cardinality(Filtered(bls_df))

\* Two rows of the series and period, one of a year the population table
\* has and one of a year it has not.
C15_Witness ==
    /\ apc = "returned"
    /\ Cardinality(Filtered(bls_df)) = 2
    /\ Len(results.combined_report) = 2
    /\ \E i, j \in 1..2 :
         /\ results.combined_report[i].population = <<>>
         /\ results.combined_report[j].population = <<100>>


\* C13: before the views are computed every textual cell of the
\* time-series table is stripped of surrounding whitespace: best_years is
\* keyed by stripped series_id values, so rows whose series_id differ only
\* by padding fall into one series, and a row whose padded series_id and
\* period strip to "PRS30006032" and "Q01" is in combined_report.
C13_Normalized ==
    apc = "returned" =>
        /\ DOMAIN results.best_years = {Strip(bls_df[k].series_id) : k \in 1..Len(bls_df)}
        /\ \A k \in 1..Len(bls_df) :
             (Strip(bls_df[k].series_id) = "PRS30006032" /\ Strip(bls_df[k].period) = "Q01")
                => \E i \in 1..Len(results.combined_report) :
                      /\ results.combined_report[i].year = bls_df[k].year
                      /\ results.combined_report[i].value = bls_df[k].value


----------------------------------------------------------------------------
(* Further properties of the pipeline, checked under Spec.                 *)

Ops(p) == {log[p][i] : i \in 1..Len(log[p])}

\* C12: a sync_bls_data call, whatever its outcome, calls put_object at
\* most once, on the time-series key; while it runs, when it has returned
\* and when it has failed, no put_object on the population key was made
\* and the population blob is as the invocation found it.
C12_AtMostOnePut ==
    \A p \in Procs :
        /\ NPuts(log[p], KEY_BLS) <= 1
        /\ \A i \in 1..Len(syncs) : syncs[i].nput <= 1
        /\ (pc[p] \in {"bls_fetch", "bls_get", "bls_put", "pop_fetch"}
             \/ failed[p] \in {"bls_fetch", "bls_get", "bls_put"}) =>
               /\ PUT_POP \notin Ops(p)
               /\ store[KEY_POP] = store0[p][KEY_POP]

\* sync_bls_data has returned after its one put_object, beside a
\* population blob of an earlier invocation.
C12_Witness ==
    /\ pc[Worker] = "pop_fetch"
    /\ NPuts(log[Worker], KEY_BLS) = 1
    /\ store[KEY_POP] # NoSuchKey
    /\ store[KEY_POP] = store0[Worker][KEY_POP]

\* C17: when sync_bls_data fails in a Sync-path invocation (the fetch
\* raises, get_object fails other than by NoSuchKey, or put_object fails),
\* fetch_population_data is never entered: no put_object on the
\* population key, no send_message, and the envelope is the 500 one.
C17_SyncAbort ==
    \A p \in Procs :
        failed[p] \in {"bls_fetch", "bls_get", "bls_put"} =>
            /\ pc[p] = "done"
            /\ result[p] = Envelope(500, "error")
            /\ calls[p] = <<"sync_bls_data">>
            /\ PUT_POP \notin Ops(p) /\ SEND \notin Ops(p)
            /\ store[KEY_POP] = store0[p][KEY_POP]
            /\ Sent(invocations) = {}

\* A failed put_object after an earlier invocation that notified.
C17_Witness ==
    /\ failed[Worker] = "bls_put"
    /\ Len(queue) = 1
    /\ store[KEY_BLS] # response[Worker].content

\* C18: when send_message fails in fetch_population_data the invocation
\* returns the 500 envelope, yet the population put_object before it
\* stands: the population key holds the newly fetched document, a
\* time-series put_object of the same invocation stands too, and no
\* message of the invocation is on the queue.
C18_NoRollback ==
    \A p \in Procs :
        failed[p] = "pop_send" =>
            /\ pc[p] = "done"
            /\ result[p] = Envelope(500, "error")
            /\ PopOps(log[p]) = <<PUT_POP, SEND>>
            /\ store[KEY_POP] = json_dumps(data[p])
            /\ PUT_BLS \in Ops(p) => store[KEY_BLS] = response[p].content
            /\ Sent(invocations) = {}

\* Both blobs were written by the invocation whose send_message failed.
C18_Witness ==
    /\ failed[Worker] = "pop_send"
    /\ PUT_BLS \in Ops(Worker)
    /\ store[KEY_BLS] # store0[Worker][KEY_BLS]
    /\ store[KEY_POP] # store0[Worker][KEY_POP]
    /\ queue = <<>>


----------------------------------------------------------------------------
(* Properties of invocations that run side by side, checked under SpecConc. *)

\* The put_object of p's current sync_bls_data call was made and succeeded.
HasPut(p) == PUT_BLS \in Ops(p) /\ failed[p] # "bls_put"

\* C14: the comparison and the write of sync_bls_data are two steps. The
\* put_object writes the fetched bytes over whatever the key holds at that
\* moment; that the worker writes at all rests on its own earlier
\* get_object, which answered something else than the fetched bytes.
C14_CompareThenWrite ==
    [][\A p \in Procs :
         (pc[p] = "bls_put" /\ pc'[p] = "pop_fetch") =>
             /\ store'[KEY_BLS] = response[p].content
             /\ existing[p] # response[p].content]_vars

\* Lost update: both workers read the empty key before either wrote, both
\* wrote, and the key holds the bytes of w1 although w2 fetched last.
C14_Witness ==
    /\ \A p \in Procs : existing[p] = NoSuchKey /\ HasPut(p)
    /\ response["w1"].content # response["w2"].content
    /\ fetched = <<"w1", "w2">>
    /\ store[KEY_BLS] = response["w1"].content

\* Redundant write: both workers read the empty key before either wrote
\* and both wrote the same bytes, the later put over an equal blob.
C14_RedundantWrite ==
    /\ \A p \in Procs : existing[p] = NoSuchKey /\ HasPut(p)
    /\ response["w1"].content = response["w2"].content
    /\ store[KEY_BLS] = response["w1"].content

\* C19: in every interleaving of invocations, once a population_update
\* message is on the queue both blobs are in the bucket: get_object of
\* either key cannot answer NoSuchKey, so an analysis invocation cannot
\* fail on an absent blob.
C19_NotifiedImpliesPresent ==
    queue # <<>> =>
        \A key \in Keys : store[key] # NoSuchKey /\ "NoSuchKey" \notin GetOutcomes(key)

\* An analysis invocation has loaded both blobs after a notification,
\* while the other worker is in the middle of a sync.
C19_Witness ==
    /\ queue # <<>>
    /\ IsSqsTrigger(event["w2"])
    /\ pc["w2"] = "analyze_compute"
    /\ pc["w1"] = "done" /\ SEND \in Ops("w1")


----------------------------------------------------------------------------
(* The tie-break of best_years, checked under SpecTies.                    *)

\* The years of sid whose summed value is the largest of sid.
TopYears(df, sid) ==
    {y \in YearsOf(df, sid) :
        \A z \in YearsOf(df, sid) : TotalValue(df, sid, y) >= TotalValue(df, sid, z)}

Lowest(S) == CHOOSE y \in S : \A z \in S : y <= z
Highest(S) == CHOOSE y \in S : \A z \in S : y >= z

\* C16: the tie-break of best_years is deterministic. Among the years of a
\* series_id that tie for the largest sum the reported year follows one
\* rule, fixed for the build (the lowest year where the sort keeps tied
\* rows in table order, the highest where it reverses them), whatever the
\* order of the records; the run over the reordered records returns the
\* best_years of the run before.
C16_TieBreak ==
    apc = "returned" =>
        /\ \A sid \in SeriesOf(bls_df) :
             results.best_years[sid].year =
                 IF tie_order = "table" THEN Lowest(TopYears(bls_df, sid))
                                        ELSE Highest(TopYears(bls_df, sid))
        /\ earlier # <<>> => results.best_years = earlier[1]

\* The second run has returned over records in which the later of two
\* tied years comes first, the other way round than in the first run.
C16_Witness ==
    /\ apc = "returned"
    /\ earlier # <<>>
    /\ Len(bls_df) >= 2
    /\ bls_df[1].series_id = bls_df[Len(bls_df)].series_id
    /\ bls_df[1].year > bls_df[Len(bls_df)].year
    /\ Cardinality(TopYears(bls_df, bls_df[1].series_id)) = 2

====
